---- MODULE Spec2Model ----
(***************************************************************************)
(* A model of the tkinter front-end of HIT-137: the two pipeline adapters  *)
(* (src/gui/adapters.py) with their decorators and mixins, and the window  *)
(* App (src/gui/views.py) with its handlers.                               *)
(*                                                                         *)
(* Python values are records with a tag field t, so that values of         *)
(* different Python types can be compared.  A Python str is the record     *)
(* [t |-> "str", s |-> <<c1, ..., cn>>] of its characters.                 *)
(***************************************************************************)
EXTENDS Naturals, Sequences, FiniteSets, TLC

VARIABLES
    var_selected_label,  \* App.var_selected_label: the label shown in the dropdown
    var_model_info,      \* App.var_model_info: the sidebar text
    txt_adapter,         \* App.txt_adapter: None or a GPT2TextAdapter
    cap_adapter,         \* App.cap_adapter: None or a ViTGPT2CaptionAdapter
    text_card,           \* TRUE iff the Text Generation section is packed (visible)
    img_card,            \* TRUE iff the Image Captioning section is packed (visible)
    txt_prompt,          \* the prompt tk.Text: [content, state]
    txt_out,             \* the output tk.Text: [content, state]
    txt_cap,             \* the caption tk.Text: [content, state]
    status_text,         \* the text of the status label
    img_path,            \* App._img_path: None or a str
    thumb_ref,           \* App._thumb_ref: None or a PhotoImage
    thumb,               \* the image option of the thumbnail label
    lbl_path,            \* the text of the path label
    ad,                  \* an adapter instance used directly through load()/run()
    fs,                  \* the paths that exist on the file system
    ev                   \* what the last operation did: calls made, error raised, dialog shown

vars == <<var_selected_label, var_model_info, txt_adapter, cap_adapter, text_card,
          img_card, txt_prompt, txt_out, txt_cap, status_text, img_path, thumb_ref,
          thumb, lbl_path, ad, fs, ev>>

uivars == <<var_selected_label, var_model_info, txt_adapter, cap_adapter, text_card,
            img_card, txt_prompt, txt_out, txt_cap, status_text, img_path, thumb_ref,
            thumb, lbl_path>>

(***************************************************************************)
(* Bounds of the model.                                                    *)
(***************************************************************************)
\* The longest string passed to run() in a direct call.
MaxLen == 2
\* The longest text typed into the prompt.
MaxPromptLen == 1
\* The most times load() is called directly on one adapter instance.
MaxLoads == 2

(***************************************************************************)
(* Python values.                                                          *)
(***************************************************************************)
None == [t |-> "None"]
Str(s) == [t |-> "str", s |-> s]
Int(n) == [t |-> "int", n |-> n]
IsStr(v) == v.t = "str"

\* The characters strings are made of; " " and "\n" are whitespace.
Chars == {" ", "a"}
Whitespace == {" ", "\n"}

SeqsUpTo(n) == UNION {[1..k -> Chars] : k \in 0..n}
\* Every string of at most MaxLen characters.
Strings == SeqsUpTo(MaxLen)

\* str.strip(): the string without its leading and trailing whitespace.
RECURSIVE lstrip(_)
lstrip(s) == IF s # <<>> /\ Head(s) \in Whitespace THEN lstrip(Tail(s)) ELSE s
RECURSIVE rstrip(_)
rstrip(s) ==
    IF s # <<>> /\ s[Len(s)] \in Whitespace THEN rstrip(SubSeq(s, 1, Len(s) - 1)) ELSE s
strip(s) == rstrip(lstrip(s))

\* Python truthiness of a str or None: bool(v).
Truthy(v) == IF v = None THEN FALSE ELSE IF IsStr(v) THEN v.s # <<>> ELSE TRUE

(***************************************************************************)
(* The outcome of a call: the object after the call, what the call did in  *)
(* order (events), the exception it raised or NoExc, and what it returned. *)
(***************************************************************************)
NoExc == [cls |-> "none", msg |-> <<>>]
Exc(cls, msg) == [cls |-> cls, msg |-> msg]
\* An event: e is what happened ("log"; "pipeline" for a call of the factory,
\* with h the handle it returned, or None when it raised; "invoke" for a call
\* of self.pipe, with h the value of self.pipe), arg the input passed or the
\* line logged, and opts the keyword options (or None).
Event(e, h, arg, opts) == [e |-> e, h |-> h, arg |-> arg, opts |-> opts]
Outcome(self, events, exc, ret) == [self |-> self, events |-> events, exc |-> exc, ret |-> ret]
Raised(o) == o.exc # NoExc

(***************************************************************************)
(* The underlying pipeline, an opaque dependency: the factory              *)
(* transformers.pipeline(task, model=..., device=...) returns a callable   *)
(* handle or raises; the handle, called, returns a result or raises.       *)
(***************************************************************************)
Handle(task, model) == [t |-> "pipeline", task |-> task, model |-> model]
\* What a pipeline call may return: a list of records, each with or without
\* a generated_text entry.
PipeResults ==
    { [t |-> "list", items |-> <<>>],
      [t |-> "list", items |-> <<[has_text |-> FALSE, generated_text |-> <<>>]>>],
      [t |-> "list", items |-> <<[has_text |-> TRUE, generated_text |-> <<"g">>]>>] }
PipeRaises == [t |-> "raise"]
\* What the environment decides for one call: whether the factory succeeds,
\* and what the handle returns (or that it raises).
PipeOutcomes == PipeResults \cup {PipeRaises}

(***************************************************************************)
(* src/gui/mixins.py                                                       *)
(***************************************************************************)
\* os.path.exists(path) for a str path.
PathExists(path, files) == path.s \in files

\* A mutant: the existence check never fails.
ensure_file_exists_never_raises(path, files) == NoExc

\* ValidationMixin.ensure_file_exists: the exception raised, or NoExc.
\* os.path.exists raises TypeError for a path that is None.
ensure_file_exists(path, files) ==
    IF ~IsStr(path) THEN Exc("TypeError", <<"stat: path should be string">>)
    ELSE IF ~PathExists(path, files) THEN Exc("FileNotFoundError", <<"File not found: ">> \o path.s)
    ELSE NoExc

\* LoggingMixin.log: one printed line.
log(msg) == Event("log", None, Str(msg), None)

(***************************************************************************)
(* src/gui/decorators.py                                                   *)
(***************************************************************************)
\* A call of a method: args are the positional arguments after self, kwargs
\* the keyword arguments in the order written, each <<name, value>>.
Call(args, kwargs) == [args |-> args, kwargs |-> kwargs]

\* requires_input's choice of the value to validate: the first positional
\* argument after self, else the first keyword argument's value.
\* (args in the source counts self: len(args) >= 2 is Len(call.args) >= 1.)
InspectedValue(call) ==
    IF Len(call.args) >= 1 THEN call.args[1] ELSE call.kwargs[1][2]

\* requires_input, the guard: the exception raised before fn is called, or NoExc.
requires_input(call) ==
    IF Len(call.args) < 1 /\ call.kwargs = <<>> THEN Exc("ValueError", <<"Input required">>)
    ELSE IF InspectedValue(call) = None THEN Exc("ValueError", <<"Input cannot be None">>)
    ELSE IF IsStr(InspectedValue(call)) /\ strip(InspectedValue(call).s) = <<>>
         THEN Exc("ValueError", <<"Input string cannot be empty">>)
    ELSE NoExc

\* timed: runs fn; when fn returns, logs "<name>() finished"; an exception of
\* fn propagates before the log line.
timed(name, out) ==
    IF Raised(out) THEN out
    ELSE [out EXCEPT !.events = @ \o <<log(<<name, "() finished">>)>>]

(***************************************************************************)
(* src/gui/adapters.py                                                     *)
(***************************************************************************)
\* BaseAdapter.__init__ with the subclass's __init__: pipe is None (lazy init).
\* loads is not a field of the source: it counts the load() calls of this
\* instance that completed.
NewAdapter(cls, model_name) ==
    [t |-> cls, model_name |-> model_name, device |-> None, pipe |-> None, loads |-> 0]

GPT2TextAdapter(model_name) == NewAdapter("GPT2TextAdapter", model_name)
ViTGPT2CaptionAdapter(model_name) == NewAdapter("ViTGPT2CaptionAdapter", model_name)

\* The task each adapter class hands to the pipeline factory.
TaskOf(self) == IF self.t = "GPT2TextAdapter" THEN "text-generation" ELSE "image-to-text"

\* The body of load(): log, build the pipeline, store the handle, return self
\* (ret is the adapter itself, as it is after the load).  When the factory
\* raises, the assignment to self.pipe never happens and nothing is returned.
load_body(self, factory_ok) ==
    LET line == log(<<"Loading ", TaskOf(self), " pipeline: ", self.model_name>>)
        h == Handle(TaskOf(self), self.model_name)
        loaded == [self EXCEPT !.pipe = h, !.loads = @ + 1]
    IN  IF factory_ok
        THEN Outcome(loaded, <<line, Event("pipeline", h, None, None)>>, NoExc, loaded)
        ELSE Outcome(self, <<line, Event("pipeline", None, None, None)>>,
                     Exc("PipelineError", <<"pipeline failed">>), None)

\* GPT2TextAdapter.load and ViTGPT2CaptionAdapter.load, both @timed.
load(self, factory_ok) == timed("load", load_body(self, factory_ok))

\* Mutants of the lazy-load test: load on every run; never load.
NeedsLoadAlways(self) == TRUE
NeedsLoadNever(self) == FALSE

\* "if self.pipe is None" in both run methods.
NeedsLoad(self) == self.pipe = None

\* Python's binding of a call's arguments to a parameter: the pos-th positional
\* argument, else the keyword of that name, else the default.
Missing == [t |-> "missing"]
KwIndex(call, name) == {i \in 1..Len(call.kwargs) : call.kwargs[i][1] = name}
Param(call, pos, name, default) ==
    IF Len(call.args) >= pos THEN call.args[pos]
    ELSE IF KwIndex(call, name) # {} THEN call.kwargs[CHOOSE i \in KwIndex(call, name) : TRUE][2]
    ELSE default

\* self.pipe(input, **opts): the handle is called; it returns or raises.  With
\* self.pipe None the call itself is a TypeError.
invoke(self, events, input, opts, result) ==
    LET es == events \o <<Event("invoke", self.pipe, input, opts)>>
    IN  IF self.pipe = None
        THEN Outcome(self, es, Exc("TypeError", <<"'NoneType' object is not callable">>), None)
        ELSE IF result = PipeRaises
        THEN Outcome(self, es, Exc("PipelineError", <<"pipeline failed">>), None)
        ELSE Outcome(self, es, NoExc, result)

\* The body of GPT2TextAdapter.run, after the decorators let the call through.
GPT2TextAdapter_run_body(self, call, env) ==
    LET prompt == Param(call, 1, "prompt", Missing)
        opts == [max_new_tokens |-> Param(call, 2, "max_new_tokens", Int(60)),
                 do_sample |-> Param(call, 3, "do_sample", [t |-> "bool", b |-> TRUE]),
                 temperature |-> Param(call, 4, "temperature", [t |-> "float", tenths |-> 8])]
        l == IF NeedsLoad(self) THEN load(self, env.factory_ok)
             ELSE Outcome(self, <<>>, NoExc, None)
    IN  IF prompt = Missing
        THEN Outcome(self, <<>>, Exc("TypeError", <<"missing argument: prompt">>), None)
        ELSE IF Raised(l) THEN l
        ELSE invoke(l.self, l.events, prompt, opts, env.result)

\* The body of ViTGPT2CaptionAdapter.run: the file check, then the lazy load.
ViTGPT2CaptionAdapter_run_body(self, call, env, files) ==
    LET image_path == Param(call, 1, "image_path", Missing)
        opts == [max_new_tokens |-> Param(call, 2, "max_new_tokens", Int(30))]
        chk == ensure_file_exists(image_path, files)
        l == IF NeedsLoad(self) THEN load(self, env.factory_ok)
             ELSE Outcome(self, <<>>, NoExc, None)
    IN  IF image_path = Missing
        THEN Outcome(self, <<>>, Exc("TypeError", <<"missing argument: image_path">>), None)
        ELSE IF chk # NoExc THEN Outcome(self, <<>>, chk, None)
        ELSE IF Raised(l) THEN l
        ELSE invoke(l.self, l.events, image_path, opts, env.result)

\* @timed @requires_input run: the guard first, then the body, then the log line.
GPT2TextAdapter_run(self, call, env) ==
    IF requires_input(call) # NoExc THEN Outcome(self, <<>>, requires_input(call), None)
    ELSE timed("run", GPT2TextAdapter_run_body(self, call, env))

ViTGPT2CaptionAdapter_run(self, call, env, files) ==
    IF requires_input(call) # NoExc THEN Outcome(self, <<>>, requires_input(call), None)
    ELSE timed("run", ViTGPT2CaptionAdapter_run_body(self, call, env, files))

\* What the environment may decide during one operation.
Envs == [factory_ok : BOOLEAN, result : PipeOutcomes]

(***************************************************************************)
(* src/gui/views.py: the static tables.                                    *)
(***************************************************************************)
LabelGPT2 == "GPT-2 (openai-community/gpt2)"
LabelViT == "ViT-GPT2 (nlpconnect/vit-gpt2-image-captioning)"
Labels == {LabelGPT2, LabelViT}

\* MODEL_OPTIONS: label -> (kind, hf_model_id).
MODEL_OPTIONS(label) ==
    IF label = LabelGPT2 THEN [kind |-> "text", model_id |-> "openai-community/gpt2"]
    ELSE [kind |-> "image", model_id |-> "nlpconnect/vit-gpt2-image-captioning"]

\* MODEL_BRIEFS.get(model_id, "No info available.").
MODEL_BRIEFS(model_id) ==
    IF model_id = "openai-community/gpt2"
    THEN "GPT-2 is a causal language model trained to predict the next token. Good for short-form generation and quick ideation."
    ELSE IF model_id = "nlpconnect/vit-gpt2-image-captioning"
    THEN "ViT-GPT2 couples a Vision Transformer encoder with a GPT-2 decoder to caption images. Useful for quick, general-purpose descriptions."
    ELSE "No info available."

\* App._model_info_for_current.
model_info_for(label) ==
    LET o == MODEL_OPTIONS(label)
    IN  <<IF o.kind = "text" THEN "Text model" ELSE "Image model", ": ", o.model_id, "\n",
          MODEL_BRIEFS(o.model_id)>>

(***************************************************************************)
(* src/gui/views.py: the tk.Text widgets.                                  *)
(***************************************************************************)
\* tk.Text(...): empty, and in tk's default state "normal" (editable).
NewText == [content |-> <<>>, state |-> "normal"]
\* widget.get("1.0", "end"): the content and tk's final newline.
TextGet(w) == w.content \o <<"\n">>
\* widget.config(state=...).
TextConfig(w, state) == [w EXCEPT !.state = state]
\* widget.delete("1.0", "end"); a disabled widget ignores it.
TextDelete(w) == IF w.state = "normal" THEN [w EXCEPT !.content = <<>>] ELSE w
\* widget.insert("1.0", content); a disabled widget ignores it.
TextInsert(w, content) ==
    IF w.state = "normal" THEN [w EXCEPT !.content = content \o @] ELSE w

\* App._set_text(widget, content, disable).
set_text(w, content, disable) ==
    TextConfig(TextInsert(TextDelete(TextConfig(w, "normal")), content),
               IF disable THEN "disabled" ELSE "normal")

\* A mutant of the prompt read: the text is not stripped.
PromptOfUnstripped(w) == TextGet(w)
\* self.txt_prompt.get("1.0", "end").strip()
PromptOf(w) == strip(TextGet(w))

\* out[0].get("generated_text", "") if isinstance(out, list) and out else str(out)
DisplayText(out) ==
    IF out.t = "list" /\ out.items # <<>>
    THEN (IF out.items[1].has_text THEN out.items[1].generated_text ELSE <<>>)
    ELSE <<"[", "]">>

\* What the last operation did.  input: the call of run() it made, or what the
\* file dialog returned (None when there is neither); before: the adapter it
\* worked on as it was before (None when absent); events: what the adapter
\* did, in order; exc: the exception raised or caught; dialog: the dialog shown.
Did(op, input, before, events, exc, dialog) ==
    [op |-> op, input |-> input, before |-> before, events |-> events, exc |-> exc,
     dialog |-> dialog]
UiDid(op, events, exc, dialog) == Did(op, None, None, events, exc, dialog)

NoDialog == "none"
WarnMissing == "showwarning: Missing"
InfoWrongModel == "showinfo: Wrong model"
ErrorDialog == "showerror: Error"
PreviewFailed == "showerror: Preview failed"

\* The files that may exist.
FileNames == {<<"a">>, <<"a", "a">>}

(***************************************************************************)
(* src/gui/views.py: App.                                                  *)
(***************************************************************************)
\* A mutant of the section switch: the sections are not hidden first.
show_section_without_hiding(label, tc, ic) ==
    IF MODEL_OPTIONS(label).kind = "text" THEN [text |-> TRUE, img |-> ic]
    ELSE [text |-> tc, img |-> TRUE]

\* App._show_section_for_current: pack_forget both sections, then pack the one
\* of the selected kind.  tc, ic: whether each section is packed before.
show_section_for_current(label, tc, ic) ==
    LET hidden == [text |-> FALSE, img |-> FALSE]
    IN  IF MODEL_OPTIONS(label).kind = "text" THEN [hidden EXCEPT !.text = TRUE]
        ELSE [hidden EXCEPT !.img = TRUE]

\* Mutants of the adapter reset: one of the adapters is kept.
reset_cap_adapter_only(txt, cap) == [txt |-> txt, cap |-> None]
reset_txt_adapter_only(txt, cap) == [txt |-> None, cap |-> cap]

\* "self.txt_adapter = None; self.cap_adapter = None" of _on_model_changed.
reset_adapters(txt, cap) == [txt |-> None, cap |-> None]

\* App.__init__: the state after construction.  The sections are built
\* unpacked, the three tk.Text widgets in tk's default state.
Init ==
    /\ var_selected_label = LabelGPT2
    /\ var_model_info = model_info_for(LabelGPT2)
    /\ txt_adapter = None
    /\ cap_adapter = None
    /\ text_card = show_section_for_current(LabelGPT2, FALSE, FALSE).text
    /\ img_card = show_section_for_current(LabelGPT2, FALSE, FALSE).img
    /\ txt_prompt = NewText
    /\ txt_out = NewText
    /\ txt_cap = NewText
    /\ status_text = <<"Ready">>
    /\ img_path = None
    /\ thumb_ref = None
    /\ thumb = None
    /\ lbl_path = <<"No image selected">>
    /\ ad = GPT2TextAdapter("openai-community/gpt2")
    /\ fs \in SUBSET FileNames
    /\ ev = UiDid("init", <<>>, NoExc, NoDialog)

\* The user edits the prompt (the section is shown and the widget editable).
TypePrompt(s) ==
    /\ text_card
    /\ txt_prompt.state = "normal"
    /\ txt_prompt' = [txt_prompt EXCEPT !.content = s]
    /\ ev' = UiDid("type", <<>>, NoExc, NoDialog)
    /\ UNCHANGED <<var_selected_label, var_model_info, txt_adapter, cap_adapter, text_card,
                   img_card, txt_out, txt_cap, status_text, img_path, thumb_ref, thumb,
                   lbl_path, ad, fs>>

\* App._on_model_changed, on the dropdown's <<ComboboxSelected>>: the dropdown
\* has set var_selected_label to the chosen label.
on_model_changed(label) ==
    /\ var_selected_label' = label
    /\ txt_adapter' = reset_adapters(txt_adapter, cap_adapter).txt
    /\ cap_adapter' = reset_adapters(txt_adapter, cap_adapter).cap
    /\ text_card' = show_section_for_current(label, text_card, img_card).text
    /\ img_card' = show_section_for_current(label, text_card, img_card).img
    /\ var_model_info' = model_info_for(label)
    /\ ev' = UiDid("model_changed", <<>>, NoExc, NoDialog)
    /\ UNCHANGED <<txt_prompt, txt_out, txt_cap, status_text, img_path, thumb_ref, thumb,
                   lbl_path, ad, fs>>

\* App._on_generate, on the Generate button of the text section.
on_generate(env) ==
    LET prompt == PromptOf(txt_prompt)
        o == MODEL_OPTIONS(var_selected_label)
        l == IF txt_adapter = None THEN load(GPT2TextAdapter(o.model_id), env.factory_ok)
             ELSE Outcome(txt_adapter, <<>>, NoExc, None)
        call == Call(<<Str(prompt)>>, <<<<"max_new_tokens", Int(80)>>>>)
        r == GPT2TextAdapter_run(l.self, call, env)
    IN  /\ text_card
        /\ IF prompt = <<>>
           THEN /\ ev' = Did("generate", None, txt_adapter, <<>>, NoExc, WarnMissing)
                /\ UNCHANGED <<txt_adapter, txt_out, status_text>>
           ELSE IF o.kind # "text"
           THEN /\ ev' = Did("generate", None, txt_adapter, <<>>, NoExc, InfoWrongModel)
                /\ UNCHANGED <<txt_adapter, txt_out, status_text>>
           ELSE IF Raised(l)
           THEN /\ txt_adapter' = l.self
                /\ ev' = Did("generate", None, txt_adapter, l.events, l.exc, ErrorDialog)
                /\ UNCHANGED <<txt_out, status_text>>
           ELSE IF Raised(r)
           THEN /\ txt_adapter' = r.self
                /\ ev' = Did("generate", call, txt_adapter, l.events \o r.events, r.exc,
                             ErrorDialog)
                /\ UNCHANGED <<txt_out, status_text>>
           ELSE /\ txt_adapter' = r.self
                /\ txt_out' = set_text(txt_out, DisplayText(r.ret), TRUE)
                /\ status_text' = <<"Generated with ", o.model_id>>
                /\ ev' = Did("generate", call, txt_adapter, l.events \o r.events, NoExc,
                             NoDialog)
        /\ UNCHANGED <<var_selected_label, var_model_info, cap_adapter, text_card, img_card,
                       txt_prompt, txt_cap, img_path, thumb_ref, thumb, lbl_path, ad, fs>>

\* A mutant of the browse handler: a failed preview clears the stored path.
browse_path_after_rollback(path, decode_ok) == IF decode_ok THEN Str(path) ELSE None

\* "self._img_path = path" of _on_browse: the path is stored before the
\* preview is decoded and stays whatever the decoding does.
browse_path_after(path, decode_ok) == Str(path)

\* App._on_browse, on the Browse Image button: choice is what the file dialog
\* returned, "" when cancelled; decode_ok whether PIL can open the file.
on_browse(choice, decode_ok) ==
    /\ img_card
    /\ IF choice = <<>>
       THEN /\ ev' = Did("browse", Str(choice), None, <<>>, NoExc, NoDialog)
            /\ UNCHANGED <<img_path, lbl_path, thumb, thumb_ref>>
       ELSE /\ img_path' = browse_path_after(choice, decode_ok)
            /\ lbl_path' = choice
            /\ IF decode_ok
               THEN /\ thumb' = [t |-> "PhotoImage", of |-> choice]
                    /\ thumb_ref' = [t |-> "PhotoImage", of |-> choice]
                    /\ ev' = Did("browse", Str(choice), None, <<>>, NoExc, NoDialog)
               ELSE /\ UNCHANGED <<thumb, thumb_ref>>
                    /\ ev' = Did("browse", Str(choice), None, <<>>,
                                 Exc("UnidentifiedImageError", <<"cannot identify image file">>),
                                 PreviewFailed)
    /\ UNCHANGED <<var_selected_label, var_model_info, txt_adapter, cap_adapter, text_card,
                   img_card, txt_prompt, txt_out, txt_cap, status_text, ad, fs>>

\* App._on_caption, on the Generate Caption button of the image section.
on_caption(env) ==
    LET o == MODEL_OPTIONS(var_selected_label)
        l == IF cap_adapter = None
             THEN load(ViTGPT2CaptionAdapter(o.model_id), env.factory_ok)
             ELSE Outcome(cap_adapter, <<>>, NoExc, None)
        call == Call(<<img_path>>, <<<<"max_new_tokens", Int(30)>>>>)
        r == ViTGPT2CaptionAdapter_run(l.self, call, env, fs)
    IN  /\ img_card
        /\ IF ~Truthy(img_path)
           THEN /\ ev' = Did("caption", None, cap_adapter, <<>>, NoExc, WarnMissing)
                /\ UNCHANGED <<cap_adapter, txt_cap>>
           ELSE IF o.kind # "image"
           THEN /\ ev' = Did("caption", None, cap_adapter, <<>>, NoExc, InfoWrongModel)
                /\ UNCHANGED <<cap_adapter, txt_cap>>
           ELSE IF Raised(l)
           THEN /\ cap_adapter' = l.self
                /\ ev' = Did("caption", None, cap_adapter, l.events, l.exc, ErrorDialog)
                /\ UNCHANGED txt_cap
           ELSE IF Raised(r)
           THEN /\ cap_adapter' = r.self
                /\ ev' = Did("caption", call, cap_adapter, l.events \o r.events, r.exc,
                             ErrorDialog)
                /\ UNCHANGED txt_cap
           ELSE /\ cap_adapter' = r.self
                /\ txt_cap' = set_text(txt_cap, DisplayText(r.ret), TRUE)
                /\ ev' = Did("caption", call, cap_adapter, l.events \o r.events, NoExc,
                             NoDialog)
        /\ UNCHANGED <<var_selected_label, var_model_info, txt_adapter, text_card, img_card,
                       txt_prompt, txt_out, status_text, img_path, thumb_ref, thumb, lbl_path,
                       ad, fs>>

\* App._on_clear_text_inputs, on the Clear button of the text section.
on_clear_text_inputs ==
    /\ text_card
    /\ txt_prompt' = set_text(txt_prompt, <<>>, FALSE)
    /\ txt_out' = set_text(txt_out, <<>>, TRUE)
    /\ status_text' = <<"Cleared">>
    /\ ev' = UiDid("clear_text", <<>>, NoExc, NoDialog)
    /\ UNCHANGED <<var_selected_label, var_model_info, txt_adapter, cap_adapter, text_card,
                   img_card, txt_cap, img_path, thumb_ref, thumb, lbl_path, ad, fs>>

\* App._on_clear_image_inputs, on the Clear button of the image section.
on_clear_image_inputs ==
    /\ img_card
    /\ img_path' = None
    /\ lbl_path' = <<"No image selected">>
    /\ thumb' = None
    /\ thumb_ref' = None
    /\ txt_cap' = set_text(txt_cap, <<>>, TRUE)
    /\ ev' = UiDid("clear_image", <<>>, NoExc, NoDialog)
    /\ UNCHANGED <<var_selected_label, var_model_info, txt_adapter, cap_adapter, text_card,
                   img_card, txt_prompt, txt_out, status_text, ad, fs>>

\* The environment deletes a file.
FsRemove(f) ==
    /\ f \in fs
    /\ fs' = fs \ {f}
    /\ ev' = UiDid("fs_remove", <<>>, NoExc, NoDialog)
    /\ UNCHANGED <<uivars, ad>>

\* App().mainloop(): tk dispatches one callback at a time, each to completion.
Next ==
    \/ \E s \in SeqsUpTo(MaxPromptLen) : TypePrompt(s)
    \/ \E label \in Labels : on_model_changed(label)
    \/ \E env \in Envs : on_generate(env)
    \/ \E choice \in {<<>>} \cup fs, decode_ok \in BOOLEAN : on_browse(choice, decode_ok)
    \/ \E env \in Envs : on_caption(env)
    \/ on_clear_text_inputs
    \/ on_clear_image_inputs
    \/ \E f \in FileNames : FsRemove(f)

Spec == Init /\ [][Next]_vars

(***************************************************************************)
(* The adapters used directly: any caller may construct an adapter and     *)
(* call load() and run() on it, passing run's arguments in any of the ways *)
(* Python allows.                                                          *)
(***************************************************************************)
\* The values passed as the input: a str of at most MaxLen characters, or None.
InputValues == {Str(s) : s \in Strings} \cup {None}

\* The ways of calling run(input, max_new_tokens=n): the input positional or
\* by keyword, the option absent, after it or before it; and the calls that
\* pass no input.
CallsOf(name, n) ==
    LET opt == <<"max_new_tokens", Int(n)>>
    IN  UNION { { Call(<<v>>, <<>>),
                  Call(<<v>>, <<opt>>),
                  Call(<<>>, <<<<name, v>>>>),
                  Call(<<>>, <<<<name, v>>, opt>>),
                  Call(<<>>, <<opt, <<name, v>>>>) } : v \in InputValues }
        \cup { Call(<<>>, <<>>), Call(<<>>, <<opt>>) }
TextCalls == CallsOf("prompt", 80)
ImageCalls == CallsOf("image_path", 30)

\* GPT2TextAdapter() or ViTGPT2CaptionAdapter(), with the default model name.
ApiNew(cls) ==
    /\ ad' = IF cls = "GPT2TextAdapter" THEN GPT2TextAdapter("openai-community/gpt2")
             ELSE ViTGPT2CaptionAdapter("nlpconnect/vit-gpt2-image-captioning")
    /\ ev' = Did("new", None, ad, <<>>, NoExc, NoDialog)
    /\ UNCHANGED <<uivars, fs>>

\* ad.load()
ApiLoad(factory_ok) ==
    /\ ad.loads < MaxLoads
    /\ LET o == load(ad, factory_ok)
       IN  /\ ad' = o.self
           /\ ev' = Did("load", None, ad, o.events, o.exc, NoDialog)
    /\ UNCHANGED <<uivars, fs>>

\* ad.run(...) on a GPT2TextAdapter.
ApiRunText(call, env) ==
    /\ ad.t = "GPT2TextAdapter"
    /\ LET o == GPT2TextAdapter_run(ad, call, env)
       IN  /\ ad' = o.self
           /\ ev' = Did("run_text", call, ad, o.events, o.exc, NoDialog)
    /\ UNCHANGED <<uivars, fs>>

\* ad.run(...) on a ViTGPT2CaptionAdapter.
ApiRunImage(call, env) ==
    /\ ad.t = "ViTGPT2CaptionAdapter"
    /\ LET o == ViTGPT2CaptionAdapter_run(ad, call, env, fs)
       IN  /\ ad' = o.self
           /\ ev' = Did("run_image", call, ad, o.events, o.exc, NoDialog)
    /\ UNCHANGED <<uivars, fs>>

NextAdapter ==
    \/ \E cls \in {"GPT2TextAdapter", "ViTGPT2CaptionAdapter"} : ApiNew(cls)
    \/ \E ok \in BOOLEAN : ApiLoad(ok)
    \/ \E call \in TextCalls, env \in Envs : ApiRunText(call, env)
    \/ \E call \in ImageCalls, env \in Envs : ApiRunImage(call, env)
    \/ \E f \in FileNames : FsRemove(f)

SpecAdapter == Init /\ [][NextAdapter]_vars

(***************************************************************************)
(* The properties checked.                                                 *)
(***************************************************************************)
\* The calls of the pipeline factory, and of the pipeline, an operation made.
FactoryCalls(d) == SelectSeq(d.events, LAMBDA x : x.e = "pipeline")
Invokes(d) == SelectSeq(d.events, LAMBDA x : x.e = "invoke")
\* An empty or whitespace-only str.
IsBlank(v) == IsStr(v) /\ \A i \in 1..Len(v.s) : v.s[i] \in Whitespace
\* The value a call of run passes as the input (the parameter called name).
InputOf(call, name) == Param(call, 1, name, Missing)
\* The last operation was a direct run() of the text / image adapter.
RanText == ev.op = "run_text"
RanImage == ev.op = "run_image"

\* C1: every run of the text adapter with an empty or whitespace-only prompt,
\* however it is passed and whether the adapter is loaded or not, fails with
\* the invalid-input error (ValueError) before the pipeline is touched: no
\* load, no pipeline call, the adapter as it was.
C1_BlankPromptRejected ==
    (RanText /\ IsBlank(InputOf(ev.input, "prompt")))
        => /\ ev.exc.cls = "ValueError"
           /\ FactoryCalls(ev) = <<>>
           /\ Invokes(ev) = <<>>
           /\ ad = ev.before

\* C2 as stated: every run of the image adapter with a path that does not
\* exist fails with the file-not-found error, never invokes the pipeline and
\* leaves an unloaded adapter unloaded.
C2_MissingFileIsFileNotFound ==
    (RanImage /\ IsStr(InputOf(ev.input, "image_path"))
              /\ InputOf(ev.input, "image_path").s \notin fs)
        => /\ ev.exc.cls = "FileNotFoundError"
           /\ FactoryCalls(ev) = <<>>
           /\ Invokes(ev) = <<>>
           /\ ad = ev.before

\* C2 amended: every run of the image adapter with a path that does not exist
\* fails, never loads or invokes the pipeline and leaves the adapter as it
\* was; the error is the file-not-found error, except that it is the
\* invalid-input error when the value the input guard looks at (the first
\* positional argument, else the first keyword's value) is an empty or
\* whitespace-only string.
C2_MissingFileFails ==
    (RanImage /\ IsStr(InputOf(ev.input, "image_path"))
              /\ InputOf(ev.input, "image_path").s \notin fs)
        => /\ ev.exc.cls = IF IsBlank(IF ev.input.args # <<>> THEN ev.input.args[1]
                                      ELSE ev.input.kwargs[1][2])
                           THEN "ValueError" ELSE "FileNotFoundError"
           /\ FactoryCalls(ev) = <<>>
           /\ Invokes(ev) = <<>>
           /\ ad = ev.before

\* C2's case: a run on an unloaded image adapter with a non-blank path that
\* does not exist raised the file-not-found error.
C2_Witness ==
    /\ RanImage
    /\ IsStr(InputOf(ev.input, "image_path"))
    /\ ~IsBlank(InputOf(ev.input, "image_path"))
    /\ InputOf(ev.input, "image_path").s \notin fs
    /\ ev.before.pipe = None
    /\ ev.exc.cls = "FileNotFoundError"

\* The input of the last direct run is valid: a non-blank str and, for the
\* image adapter, the path of an existing file.
ValidRun ==
    \/ RanText /\ IsStr(InputOf(ev.input, "prompt")) /\ ~IsBlank(InputOf(ev.input, "prompt"))
    \/ /\ RanImage
       /\ IsStr(InputOf(ev.input, "image_path"))
       /\ ~IsBlank(InputOf(ev.input, "image_path"))
       /\ InputOf(ev.input, "image_path").s \in fs

\* C3: a run with valid input on an unloaded adapter calls load exactly once,
\* and invokes the pipeline only after that load has completed, with the
\* handle it stored; a run on a loaded adapter invokes the pipeline it holds
\* without loading; and no load or run takes a loaded adapter back to unloaded.
C3_LazyLoadOnce ==
    /\ (ValidRun /\ ev.before.pipe = None)
          => /\ Len(FactoryCalls(ev)) = 1
             /\ Len(Invokes(ev)) = IF FactoryCalls(ev)[1].h = None THEN 0 ELSE 1
             /\ FactoryCalls(ev)[1].h # None
                   => /\ ad.pipe = FactoryCalls(ev)[1].h
                      /\ Invokes(ev)[1].h = FactoryCalls(ev)[1].h
                      /\ \E i, j \in 1..Len(ev.events) :
                            /\ i < j
                            /\ ev.events[i].e = "log" /\ ev.events[i].arg.s = <<"load", "() finished">>
                            /\ ev.events[j].e = "invoke"
    /\ (ValidRun /\ ev.before.pipe # None)
          => /\ FactoryCalls(ev) = <<>>
             /\ Len(Invokes(ev)) = 1
             /\ Invokes(ev)[1].h = ev.before.pipe
    /\ (ev.op \in {"load", "run_text", "run_image"} /\ ev.before.pipe # None)
          => ad.pipe # None

\* C3's case: a run with valid input found the adapter unloaded, loaded it and
\* invoked the pipeline.
C3_Witness ==
    /\ ValidRun
    /\ ev.before.pipe = None
    /\ ev.before.loads = 0
    /\ Len(Invokes(ev)) = 1
    /\ ad.pipe # None

\* The last operation was a Generate or a Generate Caption.
Generated == ev.op = "generate"
Captioned == ev.op = "caption"
Kind == MODEL_OPTIONS(var_selected_label).kind

\* C4: in every sequence of UI actions, a failed load and a retry included,
\* whenever the pipeline of an adapter is invoked, what is invoked is a handle
\* that a load() of that adapter instance stored: one completed earlier in the
\* same action, or one the instance completed before the action.
C4_InvokedOnlyAfterLoad ==
    \A i \in 1..Len(ev.events) :
        ev.events[i].e = "invoke"
            => /\ ev.events[i].h # None
               /\ \/ \E j \in 1..(i - 1) : /\ ev.events[j].e = "pipeline"
                                           /\ ev.events[j].h = ev.events[i].h
                  \/ /\ ev.before # None
                     /\ ev.before.loads >= 1
                     /\ ev.before.pipe = ev.events[i].h

\* C4's case: a Generate found an adapter whose load had failed (present but
\* unloaded, never loaded) and, retried, invoked the pipeline.
C4_Witness ==
    /\ Generated
    /\ ev.before # None
    /\ ev.before.pipe = None
    /\ ev.before.loads = 0
    /\ Len(Invokes(ev)) = 1

\* C5: a model-selection change leaves both adapters absent; a Generate or a
\* Generate Caption that finds its adapter absent and passes its input guard
\* constructs a new adapter and calls the pipeline factory once, invoking the
\* pipeline only with the handle that load stored; and no adapter instance of
\* the UI completes more than one load.
C5_SwitchForcesFreshLoad ==
    /\ ev.op = "model_changed" => (txt_adapter = None /\ cap_adapter = None)
    /\ ( /\ ev.before = None
         /\ \/ Generated /\ ~IsBlank(Str(TextGet(txt_prompt)))
            \/ Captioned /\ Truthy(img_path) )
          => /\ IF Generated THEN txt_adapter # None ELSE cap_adapter # None
             /\ Len(FactoryCalls(ev)) = 1
             /\ ev.events[1].e = "log" /\ ev.events[2].e = "pipeline"
             /\ \A i \in 1..Len(ev.events) :
                    ev.events[i].e = "invoke"
                        => (i > 2 /\ ev.events[i].h # None /\ ev.events[i].h = ev.events[2].h)
    /\ txt_adapter # None => txt_adapter.loads <= 1
    /\ cap_adapter # None => cap_adapter.loads <= 1

\* C5's case: after a text generation and a switch to the image model, a
\* Generate Caption found no adapter, built and loaded one and invoked it.
C5_Witness ==
    /\ Captioned
    /\ ev.before = None
    /\ txt_out.content # <<>>
    /\ cap_adapter # None
    /\ cap_adapter.loads = 1
    /\ Len(Invokes(ev)) = 1

\* C6: in every reachable state at most one of the two sections is visible,
\* and the visible one is the section of the selected descriptor's kind.
C6_OnePanelOfSelectedKind ==
    /\ ~(text_card /\ img_card)
    /\ text_card <=> Kind = "text"
    /\ img_card <=> Kind = "image"

\* C6's case: the selection was changed to the image model and the image
\* section is the one shown.
C6_Witness ==
    /\ ev.op = "model_changed"
    /\ var_selected_label = LabelViT
    /\ img_card

\* C7: a Generate with a blank prompt, and a Generate Caption with no image
\* path stored, show the warning dialog and do nothing else: no adapter is
\* constructed or loaded, no pipeline is called, and the output area, the
\* caption area, the status label and both adapters stay as they were.
C7_BlankInputOnlyWarns ==
    [][ ( \/ ev'.op = "generate" /\ IsBlank(Str(TextGet(txt_prompt)))
          \/ ev'.op = "caption" /\ (img_path = None \/ img_path = Str(<<>>)) )
        => /\ ev'.dialog = WarnMissing
           /\ ev'.events = <<>>
           /\ ev'.input = None
           /\ UNCHANGED <<txt_out, txt_cap, status_text, txt_adapter, cap_adapter>> ]_vars

\* C7's case: Generate was pressed on a whitespace-only prompt, with an
\* earlier result in the output area and a loaded adapter, and warned.
C7_Witness ==
    /\ Generated
    /\ ev.dialog = WarnMissing
    /\ txt_prompt.content # <<>>
    /\ txt_out.content # <<>>
    /\ txt_adapter # None

\* C8: the output area and the caption area are disabled in every reachable
\* state, from construction on, and the prompt area is editable in every
\* reachable state.
C8_OutputsAlwaysReadOnly ==
    /\ txt_out.state = "disabled"
    /\ txt_cap.state = "disabled"
    /\ txt_prompt.state = "normal"

\* C9: a Browse whose preview fails shows the error dialog and leaves the
\* newly chosen path stored; a Generate Caption with a path stored passes the
\* missing-image guard and goes on to the caption adapter, and every run it
\* makes is run(that path, max_new_tokens=30); a cancelled Browse changes
\* nothing of the UI.
C9_FailedPreviewKeepsPath ==
    [][ /\ (ev'.op = "browse" /\ ev'.exc # NoExc)
            => /\ ev'.dialog = PreviewFailed
               /\ ev'.input # Str(<<>>)
               /\ img_path' = ev'.input
               /\ UNCHANGED <<thumb, thumb_ref>>
        /\ (ev'.op = "caption" /\ Truthy(img_path))
            => /\ ev'.dialog # WarnMissing
               /\ cap_adapter' # None
               /\ ev'.input = None => (ev'.before = None /\ ev'.exc.cls = "PipelineError")
               /\ ev'.input # None => ev'.input.args = <<img_path>>
        /\ (ev'.op = "browse" /\ ev'.input = Str(<<>>)) => UNCHANGED uivars ]_vars

\* C9's case: no preview was ever decoded for the stored path (the Browse
\* that chose it failed to decode it), and Generate Caption ran the caption
\* adapter on that path.
C9_Witness ==
    /\ Captioned
    /\ thumb_ref = None
    /\ Truthy(img_path)
    /\ ev.input # None
    /\ ev.input.args = <<img_path>>
    /\ Len(Invokes(ev)) = 1

\* C10: in every reachable state at most one of the two adapters is present,
\* a present adapter is of the selected descriptor's kind and carries its
\* model identifier, and the "Wrong model" dialog is never shown (the buttons
\* are those of the visible section).
C10_AdapterOfSelectedKind ==
    /\ ~(txt_adapter # None /\ cap_adapter # None)
    /\ txt_adapter # None
          => /\ Kind = "text"
             /\ txt_adapter.t = "GPT2TextAdapter"
             /\ txt_adapter.model_name = MODEL_OPTIONS(var_selected_label).model_id
    /\ cap_adapter # None
          => /\ Kind = "image"
             /\ cap_adapter.t = "ViTGPT2CaptionAdapter"
             /\ cap_adapter.model_name = MODEL_OPTIONS(var_selected_label).model_id
    /\ ev.dialog # InfoWrongModel

\* C10's case: a text adapter was used, the selection changed, and now the
\* caption adapter is the one present and loaded.
C10_Witness ==
    /\ txt_out.content # <<>>
    /\ txt_adapter = None
    /\ cap_adapter # None
    /\ cap_adapter.pipe # None

====
